---- MODULE Spec2Model ----
(***************************************************************************)
(* Model of transfer_to_album.py: main() enumerates the account's tracks,  *)
(* reverses them, formats composite ids and uploads them in batches of     *)
(* BATCH_SIZE into playlists of at most PLAYLIST_MAX ids each.             *)
(*                                                                         *)
(* The Playlist Service (audio.createPlaylist / audio.addToPlaylist) and   *)
(* the track iterator are the environment: every call's outcome is chosen  *)
(* nondeterministically, and every call is recorded in `calls`.            *)
(***************************************************************************)
EXTENDS Integers, Sequences, FiniteSets, TLC

VARIABLES pc, playlist_title, seen, tracks, all_tracks, audio_ids,
          playlist_id, i, part, j, total_added, num_playlists,
          calls

vars == <<pc, playlist_title, seen, tracks, all_tracks, audio_ids,
          playlist_id, i, part, j, total_added, num_playlists,
          calls>>

(* ---- program constants ------------------------------------------------ *)
BATCH_SIZE == 50
PLAYLIST_MAX == 1000
MIN_TRACKS == 500

(* ---- bounds of the model ---------------------------------------------- *)
\* largest library size enumerated
MaxTracks == 2001
\* the service answers with an error only in the last FaultyTail batches of a
\* playlist (and in the very first batch); each attempt there may fail
FaultyTail == 2

(* ---- inputs ------------------------------------------------------------ *)
\* library sizes at which the iterator may be exhausted
TrackCounts == {0, MIN_TRACKS - 1, MIN_TRACKS, MIN_TRACKS + 1,
                PLAYLIST_MAX, PLAYLIST_MAX + 1, PLAYLIST_MAX + 200, MaxTracks}

\* titles typed at the prompt, after strip()
Titles == {"", "Mix"}

\* positions of the iterator's stream whose item carries no "id"
MissingIdAt == {3}

\* the item the iterator yields at stream position p: most tracks belong to
\* the user, some to another owner (a group has a negative owner id)
RawTrack(p) ==
  LET owner == IF p % 7 = 0 THEN -9 ELSE 4
  IN  IF p \in MissingIdAt THEN [owner_id |-> owner]
                           ELSE [owner_id |-> owner, id |-> 1000 + p]

StreamLen == MaxTracks + Cardinality(MissingIdAt)

(* ---- helpers ----------------------------------------------------------- *)
Min(a, b) == IF a < b THEN a ELSE b

\* Python s[a:b] for 0 <= a <= b (0-based, end exclusive, clipped to len(s))
Slice(s, a, b) == SubSeq(s, a + 1, Min(b, Len(s)))

\* mutant of Reverse: the list is left in enumeration order
ReverseKept(s) == <<>> \o s

\* list.reverse()
Reverse(s) == <<>> \o [k \in 1..Len(s) |-> s[Len(s) + 1 - k]]

\* f"{o}_{t}"
CompositeId(t) == t[1] \o "_" \o t[2]

\* [f"{o}_{t}" for o, t in all_tracks]
FormatAll(ts) == <<>> \o [k \in 1..Len(ts) |-> CompositeId(ts[k])]

\* mutant of PartTitle: the suffix is the loop index
PartTitleOffByOne(t, p) == t \o " (" \o ToString(p) \o ")"

\* f"{playlist_title} ({part + 1})"
PartTitle(t, p) == t \o " (" \o ToString(p + 1) \o ")"

\* mutant of NumParts: the division rounds down
NumPartsFloor(ids) == Len(ids) \div PLAYLIST_MAX

\* (len(audio_ids) + PLAYLIST_MAX - 1) // PLAYLIST_MAX
NumParts(ids) == (Len(ids) + PLAYLIST_MAX - 1) \div PLAYLIST_MAX

\* mutant of TooFew: the minimum is one track lower
TooFewBelow(ts) == Len(ts) < MIN_TRACKS - 1

\* len(all_tracks) < MIN_TRACKS
TooFew(ts) == Len(ts) < MIN_TRACKS

\* mutant of Loop1Stop: the first loop always runs up to PLAYLIST_MAX
Loop1StopUnclipped(ids) == PLAYLIST_MAX

\* the stop of range(BATCH_SIZE, min(PLAYLIST_MAX, len(audio_ids)), BATCH_SIZE)
Loop1Stop(ids) == Min(PLAYLIST_MAX, Len(ids))

\* mutant of Added: every batch counts as a full one
AddedFullBatch(total, batch) == total + BATCH_SIZE

\* total_added += len(batch)
Added(total, batch) == total + Len(batch)

\* mutant of Chunk: the chunk starts one batch early
ChunkEarly(ids, p) == Slice(ids, p * PLAYLIST_MAX - BATCH_SIZE, p * PLAYLIST_MAX + PLAYLIST_MAX)

\* chunk = audio_ids[start : start + PLAYLIST_MAX], start = part * PLAYLIST_MAX
Chunk(ids, p) == Slice(ids, p * PLAYLIST_MAX, p * PLAYLIST_MAX + PLAYLIST_MAX)

(* ---- the Playlist Service as seen through its calls -------------------- *)
CreateCall(title, res, id) ==
  [op |-> "createPlaylist", title |-> title, playlist_id |-> id,
   audio_ids |-> <<>>, retry |-> FALSE, result |-> res]

AddCall(pid, ids, retry, res) ==
  [op |-> "addToPlaylist", title |-> "", playlist_id |-> pid,
   audio_ids |-> ids, retry |-> retry, result |-> res]

\* the id the service gives to the next playlist it creates (never 0)
NewPlaylistId(cs) ==
  1 + Cardinality({k \in DOMAIN cs : cs[k].op = "createPlaylist" /\ cs[k].result = "ok"})

\* create_playlist(): "ok" returns a response with an id, "no_id" a response
\* without one, "error" raises RuntimeError
CreateOutcomes == {"ok", "no_id", "error"}

\* add_to_playlist(): "ok" returns, "error" raises RuntimeError (the API
\* answered with an error object)
AddOutcomes == {"ok", "error"}

\* the batch at offset k of a loop that stops at `stop` is one of its last
\* FaultyTail batches
MayFail(k, stop) == k + FaultyTail * BATCH_SIZE >= stop

(* ---- Init --------------------------------------------------------------- *)
Init ==
  /\ pc = "Prompt"
  /\ playlist_title = ""
  /\ seen = 0
  /\ tracks = <<>>
  /\ all_tracks = <<>>
  /\ audio_ids = <<>>
  /\ playlist_id = 0
  /\ i = 0
  /\ part = 0
  /\ j = 0
  /\ total_added = 0
  /\ num_playlists = 0
  /\ calls = <<>>

(* ---- main(): title prompt ---------------------------------------------- *)
PromptTitle ==
  /\ pc = "Prompt"
  /\ \E t \in Titles :
       /\ playlist_title' = t
       /\ pc' = IF t = "" THEN "NoTitle" ELSE "Login"
  /\ UNCHANGED <<seen, tracks, all_tracks, audio_ids, playlist_id, i, part, j,
                 total_added, num_playlists, calls>>

\* cookies path or login and password: main() returns when the login or the
\* password is empty, or when cookies are given and no Kate token is stored
PromptLogin ==
  /\ pc = "Login"
  /\ \E given \in BOOLEAN : pc' = IF given THEN "Fetch" ELSE "NoLogin"
  /\ UNCHANGED <<playlist_title, seen, tracks, all_tracks, audio_ids, playlist_id, i, part, j,
                 total_added, num_playlists, calls>>

(* ---- _fetch_all_via_vk_api(): one iteration of the for loop ------------- *)
FetchTrack ==
  /\ pc = "Fetch"
  /\ seen < StreamLen
  /\ Len(tracks) < MaxTracks
  /\ seen' = seen + 1
  /\ LET track == RawTrack(seen + 1)
     IN  tracks' = IF "owner_id" \in DOMAIN track /\ "id" \in DOMAIN track
                     THEN Append(tracks, <<ToString(track.owner_id), ToString(track.id)>>)
                     ELSE tracks
  /\ UNCHANGED <<pc, playlist_title, all_tracks, audio_ids, playlist_id, i, part, j,
                 total_added, num_playlists, calls>>

\* the iterator is exhausted: return tracks
FetchDone ==
  /\ pc = "Fetch"
  /\ Len(tracks) \in TrackCounts
  /\ all_tracks' = tracks
  /\ tracks' = <<>>
  /\ pc' = "Fetched"
  /\ UNCHANGED <<playlist_title, seen, audio_ids, playlist_id, i, part, j,
                 total_added, num_playlists, calls>>

\* mutant of FetchFail: the tracks fetched so far are returned
FetchFailPartial ==
  /\ pc = "Fetch"
  /\ all_tracks' = tracks
  /\ tracks' = <<>>
  /\ pc' = "Fetched"
  /\ UNCHANGED <<playlist_title, seen, audio_ids, playlist_id, i, part, j,
                 total_added, num_playlists, calls>>

\* auth(), the two-factor handler or a page request raises: except Exception
FetchFail ==
  /\ pc = "Fetch"
  /\ pc' = "EnumFailed"
  /\ tracks' = <<>>
  /\ UNCHANGED <<playlist_title, seen, all_tracks, audio_ids, playlist_id, i, part, j,
                 total_added, num_playlists, calls>>

(* ---- main(): minimum check, reverse, format ----------------------------- *)
CheckMin ==
  /\ pc = "Fetched"
  /\ IF TooFew(all_tracks)
       THEN /\ pc' = "TooFew"
            /\ UNCHANGED <<all_tracks, audio_ids>>
       ELSE /\ all_tracks' = Reverse(all_tracks)
            /\ audio_ids' = FormatAll(all_tracks')
            /\ pc' = "CreateFirst"
  /\ UNCHANGED <<playlist_title, seen, tracks, playlist_id, i, part, j,
                 total_added, num_playlists, calls>>

(* ---- main(): first playlist --------------------------------------------- *)
CreateFirst ==
  /\ pc = "CreateFirst"
  /\ \E r \in CreateOutcomes :
       LET id == IF r = "ok" THEN NewPlaylistId(calls) ELSE 0
       IN  /\ calls' = Append(calls, CreateCall(playlist_title, r, id))
           /\ IF r = "error"
                THEN pc' = "Crashed" /\ UNCHANGED playlist_id
                ELSE /\ playlist_id' = id
                     /\ pc' = IF id = 0 THEN "NoPlaylistId" ELSE "FirstBatch"
  /\ UNCHANGED <<playlist_title, seen, tracks, all_tracks, audio_ids, i, part, j,
                 total_added, num_playlists>>

\* the first batch is submitted outside any try
FirstBatch ==
  /\ pc = "FirstBatch"
  /\ \E r \in AddOutcomes :
       /\ calls' = Append(calls, AddCall(playlist_id, Slice(audio_ids, 0, BATCH_SIZE), FALSE, r))
       /\ IF r = "ok"
            THEN /\ total_added' = BATCH_SIZE
                 /\ i' = BATCH_SIZE
                 /\ pc' = "Loop1"
            ELSE /\ pc' = "Crashed"
                 /\ UNCHANGED <<total_added, i>>
  /\ UNCHANGED <<playlist_title, seen, tracks, all_tracks, audio_ids, playlist_id, part, j,
                 num_playlists>>

\* for i in range(BATCH_SIZE, min(PLAYLIST_MAX, len(audio_ids)), BATCH_SIZE): try
Loop1 ==
  /\ pc = "Loop1"
  /\ i < Loop1Stop(audio_ids)
  /\ LET batch == Slice(audio_ids, i, i + BATCH_SIZE)
     IN  \E r \in AddOutcomes :
           /\ r = "error" => MayFail(i, Loop1Stop(audio_ids))
           /\ calls' = Append(calls, AddCall(playlist_id, batch, FALSE, r))
           /\ CASE r = "ok" ->
                     /\ total_added' = Added(total_added, batch)
                     /\ i' = i + BATCH_SIZE
                     /\ UNCHANGED pc
                [] r = "error" ->
                     /\ pc' = "Retry1"
                     /\ UNCHANGED <<total_added, i>>
  /\ UNCHANGED <<playlist_title, seen, tracks, all_tracks, audio_ids, playlist_id, part, j,
                 num_playlists>>

\* except RuntimeError: sleep, second attempt
Retry1 ==
  /\ pc = "Retry1"
  /\ LET batch == Slice(audio_ids, i, i + BATCH_SIZE)
     IN  \E r \in AddOutcomes :
           /\ calls' = Append(calls, AddCall(playlist_id, batch, TRUE, r))
           /\ CASE r = "ok" ->
                     /\ total_added' = Added(total_added, batch)
                     /\ i' = i + BATCH_SIZE
                     /\ pc' = "Loop1"
                [] r = "error" ->
                     /\ i' = i + BATCH_SIZE
                     /\ pc' = "Loop1"
                     /\ UNCHANGED total_added
  /\ UNCHANGED <<playlist_title, seen, tracks, all_tracks, audio_ids, playlist_id, part, j,
                 num_playlists>>

\* the first loop is exhausted: num_playlists = 1, the part loop starts
Loop1Exit ==
  /\ pc = "Loop1"
  /\ ~(i < Loop1Stop(audio_ids))
  /\ num_playlists' = 1
  /\ part' = 1
  /\ pc' = "Parts"
  /\ UNCHANGED <<playlist_title, seen, tracks, all_tracks, audio_ids, playlist_id, i, j,
                 total_added, calls>>

(* ---- main(): overflow playlists ----------------------------------------- *)
\* for part in range(1, NumParts): create the playlist of this chunk
CreatePart ==
  /\ pc = "Parts"
  /\ part < NumParts(audio_ids)
  /\ \E r \in CreateOutcomes :
       LET id == IF r = "ok" THEN NewPlaylistId(calls) ELSE 0
       IN  /\ calls' = Append(calls, CreateCall(PartTitle(playlist_title, part), r, id))
           /\ CASE r = "error" ->
                     /\ pc' = "Crashed"
                     /\ UNCHANGED <<playlist_id, part, j, num_playlists>>
                [] r = "no_id" ->
                     /\ playlist_id' = id
                     /\ part' = part + 1
                     /\ UNCHANGED <<pc, j, num_playlists>>
                [] OTHER ->
                     /\ playlist_id' = id
                     /\ num_playlists' = num_playlists + 1
                     /\ j' = 0
                     /\ pc' = "Loop2"
                     /\ UNCHANGED part
  /\ UNCHANGED <<playlist_title, seen, tracks, all_tracks, audio_ids, i,
                 total_added>>

\* for j in range(0, len(chunk), BATCH_SIZE): try
Loop2 ==
  /\ pc = "Loop2"
  /\ j < Len(Chunk(audio_ids, part))
  /\ LET batch == Slice(Chunk(audio_ids, part), j, j + BATCH_SIZE)
     IN  \E r \in AddOutcomes :
           /\ r = "error" => MayFail(j, Len(Chunk(audio_ids, part)))
           /\ calls' = Append(calls, AddCall(playlist_id, batch, FALSE, r))
           /\ CASE r = "ok" ->
                     /\ total_added' = Added(total_added, batch)
                     /\ j' = j + BATCH_SIZE
                     /\ UNCHANGED pc
                [] r = "error" ->
                     /\ pc' = "Retry2"
                     /\ UNCHANGED <<total_added, j>>
  /\ UNCHANGED <<playlist_title, seen, tracks, all_tracks, audio_ids, playlist_id, i, part,
                 num_playlists>>

Retry2 ==
  /\ pc = "Retry2"
  /\ LET batch == Slice(Chunk(audio_ids, part), j, j + BATCH_SIZE)
     IN  \E r \in AddOutcomes :
           /\ calls' = Append(calls, AddCall(playlist_id, batch, TRUE, r))
           /\ CASE r = "ok" ->
                     /\ total_added' = Added(total_added, batch)
                     /\ j' = j + BATCH_SIZE
                     /\ pc' = "Loop2"
                [] r = "error" ->
                     /\ j' = j + BATCH_SIZE
                     /\ pc' = "Loop2"
                     /\ UNCHANGED total_added
  /\ UNCHANGED <<playlist_title, seen, tracks, all_tracks, audio_ids, playlist_id, i, part,
                 num_playlists>>

\* the chunk is exhausted: next part
Loop2Exit ==
  /\ pc = "Loop2"
  /\ ~(j < Len(Chunk(audio_ids, part)))
  /\ part' = part + 1
  /\ pc' = "Parts"
  /\ UNCHANGED <<playlist_title, seen, tracks, all_tracks, audio_ids, playlist_id, i, j,
                 total_added, num_playlists, calls>>

\* the part loop is exhausted: final report
Finish ==
  /\ pc = "Parts"
  /\ ~(part < NumParts(audio_ids))
  /\ pc' = "Done"
  /\ UNCHANGED <<playlist_title, seen, tracks, all_tracks, audio_ids, playlist_id, i, part, j,
                 total_added, num_playlists, calls>>

Next ==
  \/ PromptTitle
  \/ PromptLogin
  \/ FetchTrack
  \/ FetchDone
  \/ FetchFail
  \/ CheckMin
  \/ CreateFirst
  \/ FirstBatch
  \/ Loop1
  \/ Retry1
  \/ Loop1Exit
  \/ CreatePart
  \/ Loop2
  \/ Retry2
  \/ Loop2Exit
  \/ Finish

Spec == Init /\ [][Next]_vars

(* ======================================================================= *)
(* Reference values for the properties                                      *)
(* ======================================================================= *)
\* the composite ids of the library in enumeration order: what the iterator
\* yields, items without owner_id or id left out
EnumeratedIds ==
  LET raw  == [p \in 1..StreamLen |-> RawTrack(p)]
      kept == SelectSeq(raw, LAMBDA t : "owner_id" \in DOMAIN t /\ "id" \in DOMAIN t)
  IN  <<>> \o [k \in 1..Len(kept) |-> ToString(kept[k].owner_id) \o "_" \o ToString(kept[k].id)]

RECURSIVE IndexBetween(_, _)
IndexBetween(lo, hi) ==
  IF lo = hi THEN EnumeratedIds[lo] :> lo
  ELSE LET mid == (lo + hi) \div 2
       IN  IndexBetween(lo, mid) @@ IndexBetween(mid + 1, hi)

\* composite id -> its position in the enumeration
EnumIndex == IndexBetween(1, Len(EnumeratedIds))

\* for a library of n tracks: its composite ids, last enumerated first
ReversedIds == [n \in TrackCounts |-> <<>> \o [k \in 1..n |-> EnumeratedIds[n + 1 - k]]]

CeilDiv(a, b) == IF a % b = 0 THEN a \div b ELSE (a \div b) + 1

Last(s) == s[Len(s)]

IsAdd(c) == c.op = "addToPlaylist"
IsCreate(c) == c.op = "createPlaylist"

AddCalls == SelectSeq(calls, IsAdd)
CreateCalls == SelectSeq(calls, IsCreate)
\* the add calls without the second attempts
FirstAttempts == SelectSeq(calls, LAMBDA c : IsAdd(c) /\ ~c.retry)
RetryCalls == SelectSeq(calls, LAMBDA c : IsAdd(c) /\ c.retry)
OkAddCalls == SelectSeq(calls, LAMBDA c : IsAdd(c) /\ c.result = "ok")
FirstAttemptsTo(pid) == SelectSeq(calls, LAMBDA c : IsAdd(c) /\ ~c.retry /\ c.playlist_id = pid)

NoCallFailed == \A k \in DOMAIN calls : calls[k].result = "ok"

\* the run got past the enumeration
Uploading == pc \notin {"Prompt", "NoTitle", "Login", "NoLogin", "Fetch", "Fetched", "EnumFailed", "TooFew"}

RECURSIVE SumLens(_, _)
\* number of ids carried by the first k calls of s
SumLens(s, k) == IF k = 0 THEN 0 ELSE Len(s[k].audio_ids) + SumLens(s, k - 1)

\* the part of the id list that belongs to the m-th playlist, m = 1, 2, ...
ChunkRef(m) ==
  SubSeq(audio_ids, PLAYLIST_MAX * (m - 1) + 1, Min(PLAYLIST_MAX * m, Len(audio_ids)))

\* the title of the m-th playlist
TitleRef(m) == IF m = 1 THEN playlist_title ELSE playlist_title \o " (" \o ToString(m) \o ")"

RECURSIVE Covers(_, _, _)
\* the calls F[k..] carry, one after the other, the ids of audio_ids from
\* position pos on: the position after the last one, or -1 if they do not
Covers(F, k, pos) ==
  IF k > Len(F) THEN pos
  ELSE LET b == F[k].audio_ids
       IN  IF /\ pos + Len(b) - 1 <= Len(audio_ids)
              /\ b = SubSeq(audio_ids, pos, pos + Len(b) - 1)
             THEN Covers(F, k + 1, pos + Len(b))
             ELSE -1

\* the positions <<first, last>> of audio_ids an add call carries, found from
\* the enumeration position of its first id
Span(c) ==
  IF c.audio_ids = <<>> THEN <<1, 0>>
  ELSE LET lo == Len(audio_ids) + 1 - EnumIndex[c.audio_ids[1]]
       IN  <<lo, lo + Len(c.audio_ids) - 1>>

\* the spans of the add calls A, in call order
Spans(A) == <<>> \o [k \in DOMAIN A |-> Span(A[k])]

\* the playlists some add call names
PlaylistIds == {calls[k].playlist_id : k \in {q \in DOMAIN calls : IsAdd(calls[q])}}

RECURSIVE Window(_, _, _, _, _)
\* <<lowest, highest>> position that the calls A[k..], spans span, send to
\* playlist pid, starting from <<lo, hi>>
Window(A, span, pid, k, w) ==
  IF k > Len(A) THEN w
  ELSE Window(A, span, pid, k + 1,
              IF A[k].playlist_id = pid
                THEN <<Min(w[1], span[k][1]), IF w[2] > span[k][2] THEN w[2] ELSE span[k][2]>>
                ELSE w)

(* ======================================================================= *)
(* Properties                                                               *)
(* ======================================================================= *)

\* C1: a run whose enumerated track list has fewer than MIN_TRACKS tracks
\* (0 and 499 included) ends with the early return and makes no
\* createPlaylist and no addToPlaylist call.
C1_NoUploadBelowMinimum ==
  (pc \notin {"Prompt", "NoTitle", "Login", "NoLogin", "Fetch", "EnumFailed"}
     /\ Len(all_tracks) < MIN_TRACKS)
    => (pc \in {"Fetched", "TooFew"} /\ calls = <<>>)

C1_Witness ==
  pc = "TooFew" /\ Len(all_tracks) = MIN_TRACKS - 1 /\ calls = <<>>

\* C2 (as claimed): every first attempt of addToPlaylist that fails with an API
\* error is followed by exactly one retry of the same batch into the same
\* playlist, and a failed batch never aborts the transfer.
C2_FailedBatchRetriedNeverAborts ==
  /\ \A k \in DOMAIN calls :
       (IsAdd(calls[k]) /\ ~calls[k].retry /\ calls[k].result = "error") =>
         IF k = Len(calls)
           THEN pc \in {"Retry1", "Retry2"}
           ELSE /\ IsAdd(calls[k + 1]) /\ calls[k + 1].retry
                /\ calls[k + 1].audio_ids = calls[k].audio_ids
                /\ calls[k + 1].playlist_id = calls[k].playlist_id
                /\ (k + 2 <= Len(calls) => ~calls[k + 2].retry)
  /\ ~(pc = "Crashed" /\ calls # <<>> /\ IsAdd(Last(calls)) /\ Last(calls).result = "error")

\* C3 (as claimed): a run over at least MIN_TRACKS tracks that reaches the
\* final report has made exactly ceil(total / BATCH_SIZE) addToPlaylist calls.
C3_Original ==
  pc = "Done" => Len(AddCalls) = CeilDiv(Len(all_tracks), BATCH_SIZE)

RECURSIVE BatchesOfCreated(_, _)
\* number of batches of the chunks whose createPlaylist call (the m-th one,
\* C[m], is for chunk m) returned an id, over the first m chunks
BatchesOfCreated(C, m) ==
  IF m = 0 THEN 0
  ELSE BatchesOfCreated(C, m - 1) +
       (IF C[m].result = "ok" THEN CeilDiv(Len(ChunkRef(m)), BATCH_SIZE) ELSE 0)

\* C3 (amended): at the final report the number of addToPlaylist calls is the
\* number of batches of the chunks whose playlist was created plus one retry
\* call per failed first attempt; it is ceil(total / BATCH_SIZE) when no call
\* failed.
C3_AddCallCount ==
  pc = "Done" =>
    /\ Len(AddCalls) = BatchesOfCreated(CreateCalls, Len(CreateCalls)) + Len(RetryCalls)
    /\ Len(RetryCalls) =
         Cardinality({k \in DOMAIN calls : IsAdd(calls[k]) /\ ~calls[k].retry /\ calls[k].result = "error"})
    /\ (NoCallFailed => Len(AddCalls) = CeilDiv(Len(all_tracks), BATCH_SIZE))

C3_Witness ==
  /\ pc = "Done" /\ NoCallFailed
  /\ Len(all_tracks) = MIN_TRACKS + 1
  /\ Len(AddCalls) = 11

\* C4 (as claimed): a run over at least MIN_TRACKS tracks that reaches the
\* final report has created, and reports, ceil(total / PLAYLIST_MAX) playlists.
C4_Original ==
  pc = "Done" =>
    /\ num_playlists = CeilDiv(Len(all_tracks), PLAYLIST_MAX)
    /\ Cardinality({k \in DOMAIN CreateCalls : CreateCalls[k].result = "ok"})
         = CeilDiv(Len(all_tracks), PLAYLIST_MAX)

\* C4 (amended): at the final report ceil(total / PLAYLIST_MAX) createPlaylist
\* calls have been made, and the reported count is the number of them that
\* returned an id: ceil(total / PLAYLIST_MAX) less the overflow playlists
\* whose creation returned none.
C4_PlaylistCount ==
  pc = "Done" =>
    LET C == CreateCalls
        failed == {k \in DOMAIN C : C[k].result # "ok"}
    IN  /\ Len(C) = CeilDiv(Len(all_tracks), PLAYLIST_MAX)
        /\ num_playlists = Len(C) - Cardinality(failed)
        /\ 1 \notin failed

C4_Witness ==
  /\ pc = "Done"
  /\ Len(all_tracks) = MaxTracks
  /\ num_playlists = 2
  /\ CreateCalls[2].result = "no_id"
  /\ CreateCalls[3].result = "ok"

\* C5 (as claimed): when the creation of an overflow playlist fails, the
\* transfer does not abort, and the next call it makes, if any, is the
\* createPlaylist call of the next chunk: no id of the failed chunk is
\* submitted and the playlists created before receive nothing more.
C5_FailedOverflowCreateSkipsChunk ==
  \A k \in DOMAIN calls :
    (IsCreate(calls[k]) /\ calls[k].title # playlist_title /\ calls[k].result # "ok") =>
      IF k = Len(calls) THEN pc # "Crashed" ELSE IsCreate(calls[k + 1])

\* C6 (as claimed): at the final report of a run over n >= MIN_TRACKS tracks
\* the k-th playlist created, k = 1..ceil(n / PLAYLIST_MAX), has the title of
\* chunk k and has been sent exactly ids[1000(k-1) : min(1000k, n)].
C6_Original ==
  pc = "Done" =>
    \A m \in 1..CeilDiv(Len(audio_ids), PLAYLIST_MAX) :
      \E k \in DOMAIN CreateCalls :
        /\ CreateCalls[k].result = "ok"
        /\ CreateCalls[k].playlist_id = m
        /\ CreateCalls[k].title = TitleRef(m)
        /\ Covers(FirstAttemptsTo(m), 1, PLAYLIST_MAX * (m - 1) + 1)
             = Min(PLAYLIST_MAX * m, Len(audio_ids)) + 1

\* C6 (amended): the m-th createPlaylist call is the one for chunk m and
\* carries the user's title for m = 1 and "<title> (m)" for m >= 2; the
\* playlist it creates is sent, batch after batch, the ids of chunk m
\* = ids[1000(m-1) : min(1000m, n)] and nothing else, all of them once the
\* final report is reached; a chunk whose creation returned no id is sent
\* nowhere, and when no createPlaylist call failed the k-th playlist is the
\* one of chunk k.
C6_ChunkPerPlaylist ==
  LET C == CreateCalls
      created == {C[m].playlist_id : m \in {q \in DOMAIN C : C[q].result = "ok"}}
  IN  /\ \A m \in DOMAIN C :
           LET start == PLAYLIST_MAX * (m - 1) + 1
               stop  == Min(PLAYLIST_MAX * m, Len(audio_ids))
               sent  == Covers(FirstAttemptsTo(C[m].playlist_id), 1, start)
           IN  /\ C[m].title = TitleRef(m)
               /\ C[m].result = "ok" =>
                    /\ sent >= start /\ sent <= stop + 1
                    /\ pc = "Done" => sent = stop + 1
      /\ PlaylistIds \subseteq created
      /\ (pc = "Done" /\ \A m \in DOMAIN C : C[m].result = "ok") =>
           /\ Len(C) = CeilDiv(Len(audio_ids), PLAYLIST_MAX)
           /\ \A m \in DOMAIN C : C[m].playlist_id = m

C6_Witness ==
  /\ pc = "Done" /\ NoCallFailed
  /\ Len(audio_ids) = PLAYLIST_MAX + 200
  /\ CreateCalls[2].title = "Mix (2)"
  /\ Covers(FirstAttemptsTo(1), 1, 1) = PLAYLIST_MAX + 1
  /\ Covers(FirstAttemptsTo(2), 1, PLAYLIST_MAX + 1) = PLAYLIST_MAX + 201

\* C7: the composite ids submitted by the addToPlaylist calls, in call order
\* and a retried batch counted once, are in the reverse of the enumeration
\* order: each batch is a run of the reversed enumeration, each batch lies
\* after the one before it, a retry resubmits the batch of the failed call
\* before it, and when the final report is reached with no failed call the
\* batches make up the whole reversed enumeration.
C7_ReverseEnumerationOrder ==
  LET n  == Len(all_tracks)
      F  == FirstAttempts
      \* the batch of F[k] is at positions lo(k)..hi(k) of the reversed enumeration
      span == Spans(F)
      lo(k) == span[k][1]
      hi(k) == span[k][2]
  IN  /\ \A k \in DOMAIN F :
           /\ lo(k) >= 1 /\ lo(k) <= hi(k) /\ hi(k) <= n
           /\ F[k].audio_ids = SubSeq(ReversedIds[n], lo(k), hi(k))
      /\ \A k \in 1..(Len(F) - 1) : hi(k) < lo(k + 1)
      /\ \A k \in DOMAIN calls :
           (IsAdd(calls[k]) /\ calls[k].retry) =>
             /\ k > 1 /\ IsAdd(calls[k - 1]) /\ ~calls[k - 1].retry
             /\ calls[k - 1].result = "error"
             /\ calls[k].audio_ids = calls[k - 1].audio_ids
      /\ (pc = "Done" /\ NoCallFailed) =>
           /\ lo(1) = 1 /\ hi(Len(F)) = n
           /\ \A k \in 1..(Len(F) - 1) : lo(k + 1) = hi(k) + 1

C7_Witness ==
  /\ pc = "Done" /\ NoCallFailed
  /\ Len(all_tracks) = PLAYLIST_MAX + 1
  /\ Len(FirstAttempts) = 21
  /\ calls[2].audio_ids[1] = EnumeratedIds[PLAYLIST_MAX + 1]
  /\ Last(calls).audio_ids = <<EnumeratedIds[1]>>

\* C8: total_added is at every point of the run the number of ids in the
\* batches whose addToPlaylist call (first attempt or retry) succeeded, and
\* never exceeds the number of enumerated tracks.
C8_TotalAddedCountsSuccesses ==
  /\ total_added = SumLens(OkAddCalls, Len(OkAddCalls))
  /\ total_added <= Len(all_tracks)

C8_Witness ==
  /\ pc = "Done"
  /\ \E k \in DOMAIN calls : calls[k].retry /\ calls[k].result = "error"
  /\ Len(all_tracks) = MIN_TRACKS + 1
  /\ total_added \in {MIN_TRACKS, MIN_TRACKS + 1 - BATCH_SIZE}

\* C9: no createPlaylist or addToPlaylist call is made before the enumeration
\* has returned the whole library, and a run whose enumeration failed makes
\* none at all.
C9_EnumerationFirst ==
  /\ calls # <<>> =>
       /\ Uploading
       /\ tracks = <<>>
       /\ Len(all_tracks) \in TrackCounts
       /\ Len(audio_ids) = Len(all_tracks)
  /\ pc = "EnumFailed" => (calls = <<>> /\ all_tracks = <<>>)

C9_Witness ==
  pc = "EnumFailed" /\ seen > MIN_TRACKS /\ calls = <<>>

\* C10: every addToPlaylist call carries between 1 and BATCH_SIZE ids, a run
\* of the id list; the positions sent to one playlist lie in a window of at
\* most PLAYLIST_MAX positions (so no playlist is sent more than PLAYLIST_MAX
\* distinct ids), and the windows of different playlists do not overlap (so
\* no position is sent to two different playlists).
C10_BatchAndPlaylistLimits ==
  LET A    == AddCalls
      span == Spans(A)
      \* the positions sent to playlist p lie in win[p][1] .. win[p][2]
      win  == [p \in PlaylistIds |-> Window(A, span, p, 1, <<Len(audio_ids) + 1, 0>>)]
  IN  /\ \A k \in DOMAIN A :
           /\ Len(A[k].audio_ids) \in 1..BATCH_SIZE
           /\ span[k][1] >= 1 /\ span[k][2] <= Len(audio_ids)
           /\ A[k].audio_ids = SubSeq(audio_ids, span[k][1], span[k][2])
      /\ \A p \in DOMAIN win : win[p][2] - win[p][1] + 1 <= PLAYLIST_MAX
      /\ \A p, q \in DOMAIN win : p < q => win[p][2] < win[q][1] \/ win[q][2] < win[p][1]

C10_Witness ==
  /\ pc = "Done"
  /\ Cardinality(PlaylistIds) = 3
  /\ Len(FirstAttemptsTo(1)) = PLAYLIST_MAX \div BATCH_SIZE
  /\ \E k \in DOMAIN calls : calls[k].retry

====
